---- MODULE Spec2Model ----
(***************************************************************************)
(* Employment-trend pipeline of app.py (Streamlit dashboard) and           *)
(* regressao.py (command-line script): per-year loading, schema            *)
(* normalisation, numeric coercion, the 'detailed' filter, per-occupation  *)
(* least-squares slope, title join, ranking, the st.cache_data memo and    *)
(* the script body that renders or stops.                                  *)
(*                                                                         *)
(* Library behaviour that the source relies on is modelled by what the     *)
(* library does:                                                           *)
(*   - pd.to_numeric(errors='coerce'): non-numeric cell -> NaN             *)
(*   - pd.concat: union of columns, absent cells filled with NaN           *)
(*   - groupby(key): NaN keys dropped, groups in ascending key order       *)
(*   - GroupBy.last(): last non-null value of the group, in row order      *)
(*   - sort_values(kind='quicksort'): descending, order of ties            *)
(*     unspecified (every descending arrangement is a possible outcome)    *)
(*   - scipy linregress on identical x values: raises ValueError in        *)
(*     current releases, yields NaN in old ones (both outcomes possible)   *)
(* Slopes are exact rationals [num, den] in lowest terms with den > 0.     *)
(***************************************************************************)
EXTENDS Integers, Sequences, FiniteSets, TLC

VARIABLES
    files,    \* base_dados/national_M{year}_dl.xlsx, one entry per year
    cache,    \* st.cache_data entry of load_and_process_data
    pc,       \* position of the app.py script body in the current run
    cur,      \* (final_results, detailed_data) bound by the current run
    screen,   \* elements rendered by the current run
    reads,    \* number of pd.read_excel calls made by app.py so far
    runs,     \* number of runs of the app.py script body so far
    cli       \* outcome of one run of regressao.py

vars == <<files, cache, pc, cur, screen, reads, runs, cli>>

(***************************** bounds and constants ************************)
FirstYear == 2015
LastYear == 2017
MaxRuns == 2

years == FirstYear..LastYear

\* Occupation codes, in ascending (lexicographic) order.
CodeUniverse == <<"11-1011", "13-2011">>

(********************************* values **********************************)
\* Null of a text column.
NA == "<NA>"

\* Raw spreadsheet cells of TOT_EMP: a number, a text token, or blank.
IntCell(n) == [k |-> "int", v |-> n, t |-> ""]
TextCell(s) == [k |-> "text", v |-> 0, t |-> s]
BlankCell == [k |-> "blank", v |-> 0, t |-> ""]

\* TOT_EMP after coercion: a number or NaN.
Num(n) == [nan |-> FALSE, v |-> n]
NaN == [nan |-> TRUE, v |-> 0]

\* A file on disk.
MissingFile == [kind |-> "missing", cols |-> {}, rows |-> <<>>]
UnreadableFile == [kind |-> "unreadable", cols |-> {}, rows |-> <<>>]
TableFile(cols, rows) == [kind |-> "table", cols |-> cols, rows |-> rows]

(******************************** helpers **********************************)
Min(S) == CHOOSE m \in S : \A n \in S : m <= n
Max(S) == CHOOSE m \in S : \A n \in S : m >= n
Abs(n) == IF n < 0 THEN -n ELSE n

RECURSIVE GCD(_, _)
GCD(a, b) == IF b = 0 THEN a ELSE GCD(b, a % b)

RECURSIVE SumSeq(_)
SumSeq(s) == IF s = <<>> THEN 0 ELSE Head(s) + SumSeq(Tail(s))

RECURSIVE Flatten(_)
Flatten(ss) == IF ss = <<>> THEN <<>> ELSE Head(ss) \o Flatten(Tail(ss))

MapRows(df, cols, F(_, _)) ==
    [cols |-> cols,
     rows |-> [i \in 1..Len(df.rows) |-> [c \in cols |-> F(df.rows[i], c)]]]

(********************************* loader **********************************)
cols_to_keep == {"Year", "OCC_CODE", "OCC_TITLE", "OCC_GROUP", "TOT_EMP"}

\* df['Year'] = year
AddYear(df, y) ==
    LET F(r, c) == IF c = "Year" THEN y ELSE r[c]
    IN  MapRows(df, df.cols \cup {"Year"}, F)

\* if 'O_GROUP' in df.columns: df = df.rename(columns={'O_GROUP': 'OCC_GROUP'})
RenameNone(df) == df
RenameGroup(df) ==
    IF "O_GROUP" \in df.cols
    THEN LET F(r, c) == IF c = "OCC_GROUP" THEN r["O_GROUP"] ELSE r[c]
         IN  MapRows(df, (df.cols \ {"O_GROUP"}) \cup {"OCC_GROUP"}, F)
    ELSE df

\* existing_cols = [col for col in cols_to_keep if col in df.columns]
\* df_filtered = df[existing_cols]
Project(df) ==
    LET F(r, c) == r[c]
    IN  MapRows(df, cols_to_keep \cap df.cols, F)

\* Body of the per-year loop for a readable file.
LoadYear(f, y) == Project(RenameGroup(AddYear(f, y)))

\* The years whose pd.read_excel raises.
FailedYears(fs) == {y \in years : fs[y].kind # "table"}

ReadError(f) == IF f.kind = "missing" THEN "FileNotFoundError" ELSE "ReadError"

\* Frames of the given years, in year order.
RECURSIVE FramesFrom(_, _, _)
FramesFrom(fs, y, keep) ==
    IF y > LastYear THEN <<>>
    ELSE (IF y \in keep THEN <<LoadYear(fs[y], y)>> ELSE <<>>)
         \o FramesFrom(fs, y + 1, keep)

\* Outcome of the loading loop: the frames appended to all_dfs, or the year
\* whose exception left the loop.  fatal is the set of years whose handler
\* raises; a failing year outside it is skipped.
LoadAll(fs, fatal) ==
    IF fatal # {}
    THEN [err |-> ReadError(fs[Min(fatal)]), year |-> Min(fatal),
          all_dfs |-> <<>>, calls |-> Min(fatal) - FirstYear + 1]
    ELSE [err |-> "", year |-> 0,
          all_dfs |-> FramesFrom(fs, FirstYear, years \ FailedYears(fs)),
          calls |-> LastYear - FirstYear + 1]

\* app.py: both except clauses raise.
AppRaisesNothing(fs) == {}
AppRaises(fs) == FailedYears(fs)

\* regressao.py: both except clauses print and fall through to the next year.
CliRaises(fs) == {}

(******************************* aggregator ********************************)
\* pd.to_numeric(..., errors='coerce') on one cell.
to_numeric_zero(cell) == IF cell.k = "int" THEN Num(cell.v) ELSE Num(0)
to_numeric(cell) == IF cell.k = "int" THEN Num(cell.v) ELSE NaN

\* pd.concat(all_dfs, ignore_index=True): union of the columns; a cell of a
\* column its frame does not have is null.
ConcatCols(all_dfs) == UNION {all_dfs[i].cols : i \in DOMAIN all_dfs}

Fill(r, cols) ==
    [c \in cols |-> IF c \in DOMAIN r THEN r[c]
                    ELSE IF c = "TOT_EMP" THEN BlankCell ELSE NA]

concat(all_dfs) ==
    LET cols == ConcatCols(all_dfs)
        rows == Flatten([i \in DOMAIN all_dfs |-> all_dfs[i].rows])
    IN  [cols |-> cols, rows |-> [i \in DOMAIN rows |-> Fill(rows[i], cols)]]

\* full_data['TOT_EMP'] = pd.to_numeric(full_data['TOT_EMP'], errors='coerce')
Coerce(full_data) ==
    LET F(r, c) == IF c = "TOT_EMP" THEN to_numeric(r[c]) ELSE r[c]
    IN  MapRows(full_data, full_data.cols, F)

\* full_data[full_data['OCC_GROUP'] == 'detailed']
IsDetailed(r) == r["OCC_GROUP"] = "detailed"
DetailedRows(full_data) == SelectSeq(full_data.rows, IsDetailed)

(***************************** trend estimator *****************************)
\* linregress(x, y).slope for x not all identical:
\* (n*Sxy - Sx*Sy) / (n*Sxx - Sx*Sx), in lowest terms.
Slope(pts) ==
    LET n == Len(pts)
        sx == SumSeq([i \in 1..n |-> pts[i]["Year"]])
        sy == SumSeq([i \in 1..n |-> pts[i]["TOT_EMP"].v])
        sxy == SumSeq([i \in 1..n |-> pts[i]["Year"] * pts[i]["TOT_EMP"].v])
        sxx == SumSeq([i \in 1..n |-> pts[i]["Year"] * pts[i]["Year"]])
        num == n * sxy - sx * sy
        den == n * sxx - sx * sx
        g == GCD(Abs(num), den)
    IN  [k |-> "num", num |-> num \div g, den |-> den \div g]

SlopeNaN == [k |-> "nan", num |-> 0, den |-> 1]
SlopeRaise == [k |-> "raise", num |-> 0, den |-> 1]

\* group.dropna(subset=['Year', 'TOT_EMP'])
HasEmp(r) == ~r["TOT_EMP"].nan
DropNa(group) == SelectSeq(group, HasEmp)

ConstantX(pts) == \A i, j \in DOMAIN pts : pts[i]["Year"] = pts[j]["Year"]

\* calculate_slope(group); constx is what linregress does when all x values
\* are identical: "raise" (ValueError) or "nan".
calculate_slope(group, constx) ==
    LET pts == DropNa(group)
    IN  IF Len(pts) < 2 THEN SlopeNaN
        ELSE IF ConstantX(pts)
             THEN (IF constx = "raise" THEN SlopeRaise ELSE SlopeNaN)
             ELSE Slope(pts)

\* What linregress can do on identical x values.
ConstXOutcomes == {"raise", "nan"}

\* detailed_jobs.groupby('OCC_CODE'): the non-null keys, ascending.
GroupKeys(detailed_jobs) ==
    LET present == {detailed_jobs[i]["OCC_CODE"] : i \in DOMAIN detailed_jobs}
        In(c) == c \in present
    IN  SelectSeq(CodeUniverse, In)

GroupOf(detailed_jobs, code) ==
    LET Same(r) == r["OCC_CODE"] = code
    IN  SelectSeq(detailed_jobs, Same)

(********************************* ranker **********************************)
\* groupby('OCC_CODE')['OCC_TITLE'].last(): last non-null title of the group.
NonNullTitles(group) ==
    LET Titled(r) == r["OCC_TITLE"] # NA
    IN  SelectSeq(group, Titled)

first_title(group) ==
    LET t == NonNullTitles(group)
    IN  IF t = <<>> THEN NA ELSE t[1]["OCC_TITLE"]
last_title(group) ==
    LET t == NonNullTitles(group)
    IN  IF t = <<>> THEN NA ELSE t[Len(t)]["OCC_TITLE"]

\* a.slope >= b.slope
SlopeGeq(a, b) == a.num * b.den >= b.num * a.den

Descending(t) == \A i \in 1..(Len(t) - 1) : SlopeGeq(t[i].slope, t[i + 1].slope)
Ascending(t) == \A i \in 1..(Len(t) - 1) : SlopeGeq(t[i + 1].slope, t[i].slope)

Arrangements(n) ==
    {p \in [1..n -> 1..n] : \A i, j \in 1..n : p[i] = p[j] => i = j}

\* final_results.sort_values(by='slope', ascending=False): the arrangements
\* of the rows with slopes in descending order.
sort_values_ascending(t) ==
    {s \in {[i \in 1..Len(t) |-> t[p[i]]] : p \in Arrangements(Len(t))} :
        Ascending(s)}
sort_values(t) ==
    {s \in {[i \in 1..Len(t) |-> t[p[i]]] : p \in Arrangements(Len(t))} :
        Descending(s)}

\* reset_index(drop=True); final_results['Rank'] = final_results.index + 1
AssignRank(t) ==
    [i \in 1..Len(t) |->
        [OCC_CODE |-> t[i].OCC_CODE, slope |-> t[i].slope,
         OCC_TITLE |-> t[i].OCC_TITLE, Rank |-> i]]

(******************************** pipeline *********************************)
\* What a call returns or raises.
NoValue ==
    [status |-> "none", err |-> "", year |-> 0,
     final_results |-> <<>>, detailed_jobs |-> <<>>]
Raised(err, year) ==
    [status |-> "error", err |-> err, year |-> year,
     final_results |-> <<>>, detailed_jobs |-> <<>>]
Returned(final_results, detailed_jobs) ==
    [status |-> "ok", err |-> "", year |-> 0,
     final_results |-> final_results, detailed_jobs |-> detailed_jobs]

\* trends = detailed_jobs.groupby('OCC_CODE').apply(calculate_slope)
Trends(detailed_jobs, constx) ==
    LET keys == GroupKeys(detailed_jobs)
    IN  [i \in 1..Len(keys) |->
            [OCC_CODE |-> keys[i],
             slope |-> calculate_slope(GroupOf(detailed_jobs, keys[i]), constx)]]

\* trends_df = trends.rename('slope').reset_index().dropna()
\* job_names = detailed_jobs.groupby('OCC_CODE')['OCC_TITLE'].last()
\* final_results = pd.merge(trends_df, job_names, on='OCC_CODE')
Merged(detailed_jobs, trends) ==
    LET Finite(t) == t.slope.k = "num"
        trends_df == SelectSeq(trends, Finite)
    IN  [i \in 1..Len(trends_df) |->
            [OCC_CODE |-> trends_df[i].OCC_CODE,
             slope |-> trends_df[i].slope,
             OCC_TITLE |-> last_title(GroupOf(detailed_jobs,
                                               trends_df[i].OCC_CODE))]]

\* Everything after the loading loop, for one behaviour of linregress on
\* identical x values: the set of possible outcomes (one per arrangement of
\* tied slopes).  With no group at all (every detailed row has a null code)
\* what apply(...).rename('slope') does depends on the pandas release: a
\* TypeError or an empty table.
Process(all_dfs, constx) ==
    IF all_dfs = <<>> THEN {Raised("NoData", 0)}
    ELSE
    LET raw == concat(all_dfs)
    IN  IF "TOT_EMP" \notin raw.cols THEN {Raised("KeyError", 0)}
        ELSE
        LET full_data == Coerce(raw)
        IN  IF "OCC_GROUP" \notin full_data.cols THEN {Raised("KeyError", 0)}
            ELSE
            LET detailed_jobs == DetailedRows(full_data)
            IN  IF detailed_jobs = <<>> THEN {Raised("NoDetailed", 0)}
                ELSE IF "OCC_CODE" \notin full_data.cols
                     THEN {Raised("KeyError", 0)}
                ELSE
                LET trends == Trends(detailed_jobs, constx)
                IN  IF \E i \in DOMAIN trends : trends[i].slope.k = "raise"
                    THEN {Raised("ValueError", 0)}
                    ELSE IF trends = <<>>
                         THEN {Raised("TypeError", 0), Returned(<<>>, detailed_jobs)}
                    ELSE IF "OCC_TITLE" \notin full_data.cols
                         THEN {Raised("KeyError", 0)}
                    ELSE {Returned(AssignRank(s), detailed_jobs) :
                            s \in sort_values(Merged(detailed_jobs, trends))}

\* load_and_process_data(): what one uncached call can return or raise.
load_and_process_data(fs) ==
    LET loaded == LoadAll(fs, AppRaises(fs))
    IN  IF loaded.err # "" THEN {Raised(loaded.err, loaded.year)}
        ELSE UNION {Process(loaded.all_dfs, b) : b \in ConstXOutcomes}

\* Number of pd.read_excel calls one uncached call makes.
ReadCalls(fs) == LoadAll(fs, AppRaises(fs)).calls

\* analyze_job_trends(): it returns early (status "none") where app.py raises
\* after the loop, an exception of the later stages ends the script, and the
\* sorted table it prints carries no Rank column.
analyze_job_trends(fs) ==
    LET loaded == LoadAll(fs, CliRaises(fs))
        outs == UNION {Process(loaded.all_dfs, b) : b \in ConstXOutcomes}
        Printed(o) == [o EXCEPT !.final_results =
                          [i \in DOMAIN @ |->
                              [OCC_CODE |-> @[i].OCC_CODE, slope |-> @[i].slope,
                               OCC_TITLE |-> @[i].OCC_TITLE]]]
        Early(o) == IF o.status = "error" /\ o.err \in {"NoData", "NoDetailed"}
                    THEN NoValue ELSE Printed(o)
    IN  {[ran |-> TRUE, out |-> Early(o), warned |-> FailedYears(fs)] : o \in outs}

(***************************** the app.py script ***************************)
\* @st.cache_data: a stored return value is reused; an exception stores nothing.
CacheNever(c) == FALSE
CacheHit(c) == c.status = "ok"

\* st.stop() in the except clause of the script body.
AfterErrorContinue == "tab1"
AfterError == "stopped"

\* Queries typed into st.text_input: none, a title, a word no title contains.
\* (search_term.lower() in title.lower() is decided on these whole words.)
TitleA == "Chief Executives"
TitleB == "Top Executives"
TitleC == "Accountants"
SearchTerms == {"", TitleA, "zzz"}
Contains(title, term) == title = term

\* st.set_page_config(...); st.title(...): a run of the script body starts.
StartRun ==
    /\ pc \in {"idle", "stopped"}
    /\ runs < MaxRuns
    /\ runs' = runs + 1
    /\ pc' = "load"
    /\ cur' = NoValue
    /\ screen' = {"title"}
    /\ UNCHANGED <<files, cache, reads, cli>>

\* try: final_results, detailed_data = load_and_process_data()
\* except Exception: st.error(...); st.info(...); st.stop()
CallLoad ==
    /\ pc = "load"
    /\ IF CacheHit(cache)
       THEN /\ cur' = cache
            /\ pc' = "tab1"
            /\ UNCHANGED <<cache, reads, screen>>
       ELSE \E r \in load_and_process_data(files) :
            /\ reads' = reads + ReadCalls(files)
            /\ cur' = r
            /\ IF r.status = "ok"
               THEN /\ cache' = r
                    /\ pc' = "tab1"
                    /\ UNCHANGED screen
               ELSE /\ screen' = screen \cup {"error", "info"}
                    /\ pc' = AfterError
                    /\ UNCHANGED cache
    /\ UNCHANGED <<files, runs, cli>>

\* with tab1: the two top-10 tables.
RenderTab1 ==
    /\ pc = "tab1"
    /\ screen' = screen \cup {"top10", "bottom10"}
    /\ pc' = "tab2"
    /\ UNCHANGED <<files, cache, cur, reads, runs, cli>>

\* final_results['OCC_TITLE'].unique()
AllTitles(final_results) ==
    {final_results[i].OCC_TITLE : i \in DOMAIN final_results}

\* chart_data = detailed_data[OCC_CODE == occ_code][['Year','TOT_EMP']].dropna()
ChartData(detailed_data, occ_code) == DropNa(GroupOf(detailed_data, occ_code))

\* What the part of tab2 below the selectbox renders for the selected title.
\* A null title matches no row of final_results, and .iloc[0] raises.
Detail(selected_title) ==
    IF selected_title = NA THEN {"exception"}
    ELSE LET i == Min({j \in DOMAIN cur.final_results :
                          cur.final_results[j].OCC_TITLE = selected_title})
             occ_code == cur.final_results[i].OCC_CODE
         IN  {"metric"} \cup
             (IF ChartData(cur.detailed_jobs, occ_code) = <<>>
              THEN {"chart_warning"} ELSE {"chart"})

\* with tab2: search box, selectbox, metrics and chart of the selection.
\* title.lower() raises on a null title when a query is typed.
RenderTab2 ==
    /\ pc = "tab2"
    /\ \E search_term \in SearchTerms :
         LET all_titles == AllTitles(cur.final_results)
             matching_titles ==
                 IF search_term # ""
                 THEN {t \in all_titles : Contains(t, search_term)}
                 ELSE all_titles
         IN  IF search_term # "" /\ NA \in all_titles
             THEN /\ screen' = screen \cup {"search", "exception"}
                  /\ pc' = "stopped"
             ELSE IF search_term # "" /\ matching_titles = {}
             THEN /\ screen' = screen \cup {"search", "warning"}
                  /\ pc' = "stopped"
             ELSE IF matching_titles = {}
             THEN /\ screen' = screen \cup {"search", "select"}
                  /\ pc' = "idle"
             ELSE \E selected_title \in matching_titles :
                  /\ screen' = screen \cup {"search", "select"}
                                      \cup Detail(selected_title)
                  /\ pc' = IF selected_title = NA THEN "stopped" ELSE "idle"
    /\ UNCHANGED <<files, cache, cur, reads, runs, cli>>

(**************************** the regressao.py script **********************)
NotRun == [ran |-> FALSE, out |-> NoValue, warned |-> {}]

\* python regressao.py
CliRun ==
    /\ ~cli.ran
    /\ cli' \in analyze_job_trends(files)
    /\ UNCHANGED <<files, cache, pc, cur, screen, reads, runs>>

(********************************* inputs **********************************)
\* Columns of a source spreadsheet (A_MEAN stands for the columns the loader
\* does not keep).
RawCols == {"OCC_CODE", "OCC_TITLE", "OCC_GROUP", "TOT_EMP", "A_MEAN"}

SourceRow(code, title, group, emp) ==
    [OCC_CODE |-> code, OCC_TITLE |-> title, OCC_GROUP |-> group,
     TOT_EMP |-> emp, A_MEAN |-> "50000"]

\* The sheet of the given rows without the columns in omit, its group column
\* spelled as given.
Sheet(rows, omit, spelling) ==
    LET cols == ((RawCols \ omit) \ {"OCC_GROUP"})
                \cup (IF "OCC_GROUP" \in omit THEN {} ELSE {spelling})
        F(r, c) == IF c = spelling THEN r["OCC_GROUP"] ELSE r[c]
    IN  TableFile(cols, MapRows([rows |-> rows], cols, F).rows)

FullSheet(rows) == Sheet(rows, {}, "OCC_GROUP")

Emp100 == IntCell(100)
Emp120 == IntCell(120)
Suppressed == TextCell("**")

\* Rows of one occupation in one year's sheet.
D(code, title, emp) == SourceRow(code, title, "detailed", emp)
M(code, title, emp) == SourceRow(code, title, "major", emp)

Code1 == CodeUniverse[1]
Code2 == CodeUniverse[2]

\* Employment cells: the first occupation absent, counted, suppressed, listed
\* only as a rollup row, or listed twice; the second one counted.  The sheet
\* lists the second occupation first.
FirstCells ==
    {<<>>, <<D(Code1, TitleA, Emp100)>>, <<D(Code1, TitleA, Emp120)>>,
     <<D(Code1, TitleA, Suppressed)>>, <<M(Code1, TitleA, Emp120)>>,
     <<D(Code1, TitleA, Emp100), D(Code1, TitleA, Emp120)>>}
SecondCells ==
    {<<D(Code2, TitleC, Emp100)>>, <<D(Code2, TitleC, Emp120)>>}
RowSheets == {FullSheet(b \o a) : a \in FirstCells, b \in SecondCells}

\* Titles: the first occupation absent, or listed once with a null, an old or
\* a new title on a counted, a suppressed or a rollup row.
TitleCells ==
    {<<>>} \cup
    UNION {{<<D(Code1, t, Emp100)>>, <<D(Code1, t, Suppressed)>>,
            <<M(Code1, t, Emp100)>>} : t \in {NA, TitleA, TitleB}}
TitleSheets == {FullSheet(a \o <<D(Code2, TitleC, Emp100)>>) : a \in TitleCells}

\* A year's complete data: the first occupation grows, the second shrinks.
GoodRows(y) ==
    <<D(Code1, TitleA, IF y = FirstYear THEN Emp100 ELSE Emp120),
      D(Code2, TitleC, IF y = FirstYear THEN Emp120 ELSE Emp100),
      M("11-0000", "Management Occupations", Emp120)>>

\* Files: missing, unreadable, complete, without rows, or rollup rows only.
FileChoices(y) ==
    {MissingFile, UnreadableFile, FullSheet(GoodRows(y)), FullSheet(<<>>),
     FullSheet(<<M("11-0000", "Management Occupations", Emp120)>>)}

\* Columns: the complete data with at most one expected column left out and
\* the group column under either name.
ColumnChoices(y) ==
    {Sheet(GoodRows(y), omit, spelling) :
        omit \in {{}, {"OCC_CODE"}, {"OCC_TITLE"}, {"OCC_GROUP"}, {"TOT_EMP"}},
        spelling \in {"OCC_GROUP", "O_GROUP"}}

(***************************** specifications ******************************)
Start ==
    /\ cache = NoValue
    /\ pc = "idle"
    /\ cur = NoValue
    /\ screen = {}
    /\ reads = 0
    /\ runs = 0
    /\ cli = NotRun

Init == files \in [years -> UNION {FileChoices(y) : y \in years}]
        /\ (\A y \in years : files[y] \in FileChoices(y))
        /\ Start
InitRows == files \in [years -> RowSheets] /\ Start
InitTitles == files \in [years -> TitleSheets] /\ Start
InitColumns == files \in [years -> UNION {ColumnChoices(y) : y \in years}]
               /\ (\A y \in years : files[y] \in ColumnChoices(y))
               /\ Start

NextApp == StartRun \/ CallLoad \/ RenderTab1 \/ RenderTab2
Next == NextApp \/ CliRun

Spec == Init /\ [][Next]_vars
SpecRows == InitRows /\ [][NextApp]_vars
SpecTitles == InitTitles /\ [][NextApp]_vars
SpecColumns == InitColumns /\ [][NextApp]_vars

(********************************* claims **********************************)
Loaded == cache.status = "ok"
Ranked == cache.final_results

\* Rational comparison of two slopes.
RatGeq(a, b) == a.num * b.den >= b.num * a.den
RatEq(a, b) == a.num * b.den = b.num * a.den

CodeIndex(c) == CHOOSE i \in DOMAIN CodeUniverse : CodeUniverse[i] = c
Codes == {CodeUniverse[i] : i \in DOMAIN CodeUniverse}
RowsOf(code) == {i \in DOMAIN Ranked : Ranked[i].OCC_CODE = code}

\* The 'detailed' rows of a code in the source sheets, as <<year, row number>>.
SourceDetailed(code) ==
    {yi \in UNION {{<<y, i>> : i \in DOMAIN files[y].rows} : y \in years} :
        /\ files[yi[1]].rows[yi[2]]["OCC_CODE"] = code
        /\ files[yi[1]].rows[yi[2]]["OCC_GROUP"] = "detailed"}
SourceRowAt(yi) == files[yi[1]].rows[yi[2]]
Counted(code) == {yi \in SourceDetailed(code) : SourceRowAt(yi)["TOT_EMP"].k = "int"}
CountedPairs(code) == {<<yi[1], SourceRowAt(yi)["TOT_EMP"].v>> : yi \in Counted(code)}
CountedYears(code) == {yi[1] : yi \in Counted(code)}

MissingYears == {y \in years : files[y].kind = "missing"}

\* C1 as stated: when the file of some year is missing, neither
\* load_and_process_data nor analyze_job_trends produces a ranked table.
C1_MissingFileFatalEverywhere ==
    MissingYears # {} =>
        /\ cache.status # "ok"
        /\ cur.status # "ok"
        /\ cli.out.status # "ok"

\* C1 amended: when the file of some year is missing, load_and_process_data
\* raises (the error of the first year whose read fails) and no ranked table
\* is cached or bound; analyze_job_trends warns about that year and computes
\* its ranking from rows of the other years only.
C1_MissingFileFatalInApp ==
    MissingYears # {} =>
        /\ cache.status # "ok"
        /\ cur.status # "ok"
        /\ pc \notin {"tab1", "tab2"}
        /\ cur.status = "error" =>
              /\ cur.year = Min(FailedYears(files))
              /\ cur.err = ReadError(files[cur.year])
        /\ cli.ran =>
              /\ MissingYears \subseteq cli.warned
              /\ \A i \in DOMAIN cli.out.detailed_jobs :
                    cli.out.detailed_jobs[i]["Year"] \notin MissingYears

C1_Witness ==
    /\ MissingYears # {}
    /\ cur.status = "error"
    /\ cur.err = "FileNotFoundError"
    /\ cli.ran
    /\ cli.out.status = "ok"
    /\ cli.out.final_results # <<>>

\* C2: in the ranked table the row at position i has Rank i, the ranks are
\* exactly 1..N, and slopes never increase from one row to the next.
C2_RankDenseDescending ==
    Loaded =>
        /\ {Ranked[i].Rank : i \in DOMAIN Ranked} = 1..Len(Ranked)
        /\ \A i \in DOMAIN Ranked : Ranked[i].Rank = i
        /\ \A i \in 1..(Len(Ranked) - 1) :
              RatGeq(Ranked[i].slope, Ranked[i + 1].slope)
        /\ cur.status = "ok" => cur = cache

C2_Witness ==
    /\ Loaded
    /\ Len(Ranked) = 2
    /\ ~RatEq(Ranked[1].slope, Ranked[2].slope)
    /\ CodeIndex(Ranked[1].OCC_CODE) > CodeIndex(Ranked[2].OCC_CODE)

C4_CacheReused ==
    [][Loaded =>
        /\ cache' = cache
        /\ reads' = reads
        /\ cur'.status # "none" => cur' = cache]_vars

C4_Witness ==
    /\ runs = 2
    /\ pc = "tab1"
    /\ Loaded
    /\ cur = cache
    /\ reads = LastYear - FirstYear + 1

\* C5: in a run whose load failed, the script has stopped and none of the
\* ranking tables, search box, selectbox, metrics or chart has been rendered.
RenderedData ==
    {"top10", "bottom10", "search", "select", "metric", "chart",
     "chart_warning", "warning"}
C5_NoRenderAfterFailure ==
    cur.status = "error" =>
        /\ pc = "stopped"
        /\ screen \cap RenderedData = {}
        /\ "error" \in screen

C5_Witness ==
    /\ cur.status = "error"
    /\ cur.err = "NoDetailed"
    /\ runs = 2
    /\ screen = {"title", "error", "info"}

\* C6 as stated: with every file readable, leaving expected columns out of
\* the sheets never makes the load raise for the absent column.
C6_OmittedColumnNeverRaises ==
    cur.status = "error" => cur.err # "KeyError"

\* C7 as stated: rows of the ranked table with equal slopes stand in the
\* order of the grouping step (ascending occupation code).
C7_TiesKeepGroupingOrder ==
    Loaded => \A i, j \in DOMAIN Ranked :
        (i < j /\ RatEq(Ranked[i].slope, Ranked[j].slope))
            => CodeIndex(Ranked[i].OCC_CODE) < CodeIndex(Ranked[j].OCC_CODE)

\* C8: the title of a ranked code is a title of its 'detailed' rows of the
\* latest year that has a non-null title for it (null if no year has one).
Titled(code) == {yi \in SourceDetailed(code) : SourceRowAt(yi)["OCC_TITLE"] # NA}
LatestTitles(code) ==
    LET last == Max({yi[1] : yi \in Titled(code)})
    IN  {SourceRowAt(yi)["OCC_TITLE"] : yi \in {t \in Titled(code) : t[1] = last}}
C8_TitleOfLatestTitledYear ==
    Loaded => \A i \in DOMAIN Ranked :
        IF Titled(Ranked[i].OCC_CODE) = {}
        THEN Ranked[i].OCC_TITLE = NA
        ELSE Ranked[i].OCC_TITLE \in LatestTitles(Ranked[i].OCC_CODE)

C8_Witness ==
    /\ Loaded
    /\ \E i \in DOMAIN Ranked :
          /\ Ranked[i].OCC_CODE = Code1
          /\ Ranked[i].OCC_TITLE = TitleB
          /\ \E yi \in SourceDetailed(Code1) :
                yi[1] = LastYear /\ SourceRowAt(yi)["OCC_TITLE"] = NA
          /\ \E yi \in SourceDetailed(Code1) :
                yi[1] = FirstYear /\ SourceRowAt(yi)["OCC_TITLE"] = TitleA

\* C9 as stated: when some occupation has at least 2 counted records that
\* all carry one year, the load completes and the table has no row for it.
OneYearOnly(code) ==
    Cardinality(Counted(code)) >= 2 /\ Cardinality(CountedYears(code)) = 1
C9_ZeroVarianceNoCrash ==
    (cur.status # "none" /\ \E code \in Codes : OneYearOnly(code)) =>
        /\ cur.status = "ok"
        /\ \A code \in Codes : OneYearOnly(code) =>
              \A i \in DOMAIN cur.final_results :
                  cur.final_results[i].OCC_CODE # code

\* C10: a sheet whose group column is named O_GROUP loads to the same
\* per-year records as the same sheet with the column named OCC_GROUP, and
\* the rows that pass the 'detailed' filter are the same rows.
Respelled(f, name) ==
    LET other == IF name = "O_GROUP" THEN "OCC_GROUP" ELSE "O_GROUP"
        cols == IF other \in f.cols THEN (f.cols \ {other}) \cup {name} ELSE f.cols
        F(r, c) == IF c = name /\ other \in f.cols THEN r[other] ELSE r[c]
    IN  TableFile(cols, MapRows(f, cols, F).rows)
CanonicalFiles == [y \in years |-> Respelled(files[y], "OCC_GROUP")]
C10_SpellingIrrelevant ==
    /\ pc = "load" => \A y \in years :
          /\ LoadYear(Respelled(files[y], "O_GROUP"), y)
                = LoadYear(Respelled(files[y], "OCC_GROUP"), y)
          /\ LoadYear(files[y], y) = LoadYear(Respelled(files[y], "OCC_GROUP"), y)
    /\ (pc = "tab1" /\ cur.status = "ok") =>
          LET canonical == Coerce(concat(FramesFrom(CanonicalFiles, FirstYear, years)))
          IN  /\ cur.detailed_jobs = DetailedRows(canonical)
              /\ Len(cur.detailed_jobs) = Len(DetailedRows(canonical))

C10_Witness ==
    /\ pc = "tab1"
    /\ cur.status = "ok"
    /\ \E y \in years :
          /\ "O_GROUP" \in files[y].cols
          /\ \E i \in DOMAIN cur.detailed_jobs : cur.detailed_jobs[i]["Year"] = y
    /\ \E y \in years : "OCC_GROUP" \in files[y].cols

====
